---- MODULE Spec2Model ----
(***************************************************************************)
(* Model of aam/base.py: the AAM base class (level selection, eigenvalue   *)
(* scaling of weight vectors, serialization adapter) and its five concrete *)
(* classes.  External collaborators (PCA models, reference frame builders, *)
(* transforms, warping) are uninterpreted constructors: a call is recorded *)
(* with the arguments it received.                                         *)
(*                                                                         *)
(* Real numbers are modelled by integers: eigenvalues are perfect squares, *)
(* so x ** 0.5 is exact.  Weight vectors are float vectors held either in  *)
(* a Python list or in an ndarray.                                         *)
(***************************************************************************)
EXTENDS Integers, Sequences, FiniteSets, TLC

VARIABLES cls, self, args, last

vars == <<cls, self, args, last>>

\* Bounds of the model.
MaxLevels == 2
MaxEig == 2

\* Weight vectors run up to one entry more than a model keeps eigenvalues.
MaxWeights == MaxEig + 1

Min(a, b) == IF a < b THEN a ELSE b

(***************************************************************************)
(* Python and numpy primitives used by the code.                           *)
(***************************************************************************)

\* Python's None as an argument value.
PyNone == [kind |-> "None", vals |-> <<>>]

PyList(seq) == [kind |-> "list", vals |-> seq]

NdArray(seq) == [kind |-> "ndarray", vals |-> seq]

\* Indexing that counts a negative index from the front.
ListIndexFromFront(seq, i) ==
    IF i >= 0 /\ i < Len(seq)
    THEN [ok |-> TRUE, pos |-> i + 1]
    ELSE IF i < 0 /\ -i <= Len(seq)
    THEN [ok |-> TRUE, pos |-> -i]
    ELSE [ok |-> FALSE, pos |-> 0]

\* seq[i] for a Python list and an int index (negative counts from the end);
\* IndexError outside [-len, len-1].
ListIndex(seq, i) ==
    IF i >= 0 /\ i < Len(seq)
    THEN [ok |-> TRUE, pos |-> i + 1]
    ELSE IF i < 0 /\ -i <= Len(seq)
    THEN [ok |-> TRUE, pos |-> Len(seq) + i + 1]
    ELSE [ok |-> FALSE, pos |-> 0]

\* The array itself, unsliced.
SliceToWhole(a, n) == a

\* a[:n] for n >= 0: at most the first n entries, never an error.

SliceTo(a, n) == SubSeq(a, 1, Min(n, Len(a)))

\* x ** 0.5 on a perfect square.
Sqrt(x) == CHOOSE r \in 0..x : r * r = x

\* a ** 0.5, elementwise.
PowHalf(a) == [i \in 1..Len(a) |-> Sqrt(a[i])]

\* numpy broadcasting of two one-dimensional shapes.
Broadcastable(n, m) == n = m \/ n = 1 \/ m = 1

BroadcastLen(n, m) == IF n = 1 THEN m ELSE n

BroadcastAt(a, i) == IF Len(a) = 1 THEN a[1] ELSE a[i]

\* a * b for two one-dimensional arrays that broadcast.
Multiply(a, b) ==
    [i \in 1..BroadcastLen(Len(a), Len(b)) |-> BroadcastAt(a, i) * BroadcastAt(b, i)]

\* `w *= arr`.  A list has no in-place multiply with an array: Python falls
\* back to ndarray.__rmul__, and the local name is rebound to a new array
\* while the list object stays as it was.  An ndarray is multiplied in
\* place: the object the caller passed is overwritten, and the broadcast
\* result must have the array's own shape.
\*   value: what the local name refers to afterwards
\*   obj:   the object that was passed in, afterwards
IMul(w, arr) ==
    IF ~Broadcastable(Len(w.vals), Len(arr))
    THEN [error |-> "ValueError", value |-> w, obj |-> w]
    ELSE IF w.kind = "list"
    THEN [error |-> "none", value |-> NdArray(Multiply(w.vals, arr)), obj |-> w]
    ELSE IF BroadcastLen(Len(w.vals), Len(arr)) # Len(w.vals)
    THEN [error |-> "ValueError", value |-> w, obj |-> w]
    ELSE [error |-> "none",
          value |-> NdArray(Multiply(w.vals, arr)),
          obj |-> NdArray(Multiply(w.vals, arr))]

(***************************************************************************)
(* External collaborators, uninterpreted.                                  *)
(***************************************************************************)

\* The ordered eigenvalues of a PCA model of `level` keeping k components.
Spectrum(level, k) ==
    [j \in 1..k |-> (level + MaxEig - j) * (level + MaxEig - j)]

\* A shape PCA model; its instances are of geometric kind `kind`.
ShapeModel(level, k, kind) ==
    [level |-> level, eigenvalues |-> Spectrum(level, k), kind |-> kind]

\* An appearance PCA model; its mean image carries landmarks of type lmsType.
AppearanceModel(level, k, lmsType) ==
    [level |-> level,
     eigenvalues |-> Spectrum(level, k),
     kind |-> "Image",
     mean |-> [level |-> level,
               lms |-> [type |-> lmsType, owner |-> "template", level |-> level]]]

\* pca.n_active_components: the number of eigenvalues the model exposes.
n_active_components(pca) == Len(pca.eigenvalues)

\* pca.instance(weights): records the model asked and the weights it got.
NotCalled == [called |-> FALSE, level |-> 0, w |-> <<>>, kind |-> "None"]

PCAInstance(pca, weights) ==
    [called |-> TRUE, level |-> pca.level, w |-> weights.vals, kind |-> pca.kind]

NoTrilist == [tag |-> "None", owner |-> "None", level |-> 0]

\* landmarks.trilist of a mesh.
Trilist(lms) == [tag |-> "trilist", owner |-> lms.owner, level |-> lms.level]

\* utils.build_reference_frame(shape, trilist=trilist)
build_reference_frame(shape, trilist) ==
    [builder |-> "build_reference_frame", shape |-> shape,
     trilist |-> trilist, patch_shape |-> "None"]

\* utils.build_patch_reference_frame(shape, patch_shape=patch_shape)
build_patch_reference_frame(shape, patch_shape) ==
    [builder |-> "build_patch_reference_frame", shape |-> shape,
     trilist |-> NoTrilist, patch_shape |-> patch_shape]

\* reference_frame.landmarks, reference_frame.landmarks['source'].lms and
\* reference_frame.mask
FrameLandmarks(frame) == [owner |-> "reference_frame", frame |-> frame]

FrameSourceLms(frame) == [source_of |-> "reference_frame", frame |-> frame]

FrameMask(frame) == [mask_of |-> frame]

\* image.warp_to_mask(mask, transform): a new image over the mask, with
\* landmarks of its own.
warp_to_mask(image, mask, transform) ==
    [tag |-> "Image", pixels |-> image, mask |-> mask, transform |-> transform,
     landmarks |-> [owner |-> "warped_image", frame |-> mask.mask_of]]

NoImage == [tag |-> "None"]

\* hdf5able.SerializableCallable(callable, modules)
SerializableCallable(f, modules) ==
    [tag |-> "SerializableCallable", callable |-> f, modules |-> modules]

Callable(name) == [tag |-> "callable", name |-> name]

CallableList(items) == [tag |-> "list", items |-> items]

(***************************************************************************)
(* The classes of aam/base.py.                                             *)
(***************************************************************************)

Classes == {"GlobalAAM", "PatchAAM", "LinearGlobalAAM", "LinearPatchAAM", "PartsAAM"}

\* menpo.transform.thinplatesplines.ThinPlateSplines
ThinPlateSplines == Callable("ThinPlateSplines")

\* __init__ of each class: the instance dictionary it leaves behind.
GlobalAAM_init(a) ==
    [shape_models |-> a.shape_models,
     appearance_models |-> a.appearance_models,
     transform |-> a.transform,
     features |-> a.features,
     reference_shape |-> a.reference_shape,
     sigma |-> a.sigma,
     scales |-> a.scales,
     scale_shapes |-> a.scale_shapes,
     scale_features |-> a.scale_features]

PatchAAM_init(a) ==
    [shape_models |-> a.shape_models,
     appearance_models |-> a.appearance_models,
     transform |-> ThinPlateSplines,
     patch_shape |-> a.patch_shape,
     features |-> a.features,
     reference_shape |-> a.reference_shape,
     sigma |-> a.sigma,
     scales |-> a.scales,
     scale_shapes |-> a.scale_shapes,
     scale_features |-> a.scale_features]

LinearGlobalAAM_init(a) ==
    [shape_models |-> a.shape_models,
     appearance_models |-> a.appearance_models,
     transform |-> a.transform,
     features |-> a.features,
     reference_shape |-> a.reference_shape,
     sigma |-> a.sigma,
     scales |-> a.scales,
     scale_shapes |-> a.scale_shapes,
     scale_features |-> a.scale_features,
     n_landmarks |-> a.n_landmarks]

LinearPatchAAM_init(a) ==
    [shape_models |-> a.shape_models,
     appearance_models |-> a.appearance_models,
     transform |-> ThinPlateSplines,
     patch_shape |-> a.patch_shape,
     features |-> a.features,
     reference_shape |-> a.reference_shape,
     sigma |-> a.sigma,
     scales |-> a.scales,
     scale_shapes |-> a.scale_shapes,
     scale_features |-> a.scale_features,
     n_landmarks |-> a.n_landmarks]

PartsAAM_init(a) ==
    [shape_models |-> a.shape_models,
     appearance_models |-> a.appearance_models,
     parts_shape |-> a.parts_shape,
     features |-> a.features,
     sigma |-> a.sigma,
     reference_shape |-> a.reference_shape,
     scales |-> a.scales,
     scale_shapes |-> a.scale_shapes,
     scale_features |-> a.scale_features]

Construct(c, a) ==
    CASE c = "GlobalAAM" -> GlobalAAM_init(a)
      [] c = "PatchAAM" -> PatchAAM_init(a)
      [] c = "LinearGlobalAAM" -> LinearGlobalAAM_init(a)
      [] c = "LinearPatchAAM" -> LinearPatchAAM_init(a)
      [] c = "PartsAAM" -> PartsAAM_init(a)

\* The level count read off the shape models instead.
n_levels_of_models(obj) == Len(obj.shape_models)

\* AAM.n_levels
n_levels(obj) == Len(obj.scales)

\* isinstance(landmarks, TriMesh): subclasses included.
IsInstanceOfTriMesh(landmarks) == landmarks.type \in {"TriMesh", "TexturedTriMesh"}

\* type(landmarks) == TriMesh: the exact class, not a subclass of it.
IsExactlyTriMesh(landmarks) == landmarks.type = "TriMesh"

\* GlobalAAM._build_reference_frame(reference_shape, landmarks)
GlobalAAM__build_reference_frame(obj, reference_shape, landmarks) ==
    LET trilist == IF IsExactlyTriMesh(landmarks) THEN Trilist(landmarks) ELSE NoTrilist
    IN  build_reference_frame(reference_shape, trilist)

\* PatchAAM._build_reference_frame(reference_shape, _)
PatchAAM__build_reference_frame(obj, reference_shape, landmarks) ==
    build_patch_reference_frame(reference_shape, obj.patch_shape)

\* As if LinearPatchAAM inherited PatchAAM's methods.
DefinesInstanceInherited(c) == c \in {"GlobalAAM", "PatchAAM", "LinearPatchAAM"}

\* The classes that define _instance and _build_reference_frame.
DefinesInstance(c) == c \in {"GlobalAAM", "PatchAAM"}

_build_reference_frame(c, obj, reference_shape, landmarks) ==
    IF c = "GlobalAAM"
    THEN GlobalAAM__build_reference_frame(obj, reference_shape, landmarks)
    ELSE PatchAAM__build_reference_frame(obj, reference_shape, landmarks)

\* self.transform(source, target)
TransformCall(obj, source, target) ==
    [ctor |-> obj.transform, source |-> source, target |-> target]

\* The warped image returned with the landmarks it came with.
SetLandmarksSkipped(image, landmarks) == image

\* instance.landmarks = reference_frame.landmarks
SetLandmarks(image, landmarks) == [image EXCEPT !.landmarks = landmarks]

\* GlobalAAM._instance and PatchAAM._instance (the same statements; they
\* differ in the _build_reference_frame they reach).  `level` was accepted
\* by AAM.instance for the same list before this is reached.
_instance(c, obj, level, shape_instance, appearance_instance) ==
    LET template == obj.appearance_models[ListIndex(obj.appearance_models, level).pos].mean
        landmarks == template.lms
        reference_frame == _build_reference_frame(c, obj, shape_instance, landmarks)
        transform == TransformCall(obj, FrameSourceLms(reference_frame), landmarks)
        warped == warp_to_mask(appearance_instance, FrameMask(reference_frame), transform)
        instance_ == SetLandmarks(warped, FrameLandmarks(reference_frame))
    IN  [log |-> <<"mean", "_build_reference_frame", "transform", "warp_to_mask",
                   "set_landmarks">>,
         template |-> template,
         image |-> instance_]

\* What a call of instance() or random_instance() leaves behind:
\*   error    the exception that ended the call, or "none"
\*   log      the collaborators called, in order
\*   passedS  the call of the shape model's instance(), passedA the
\*            appearance model's
\*   image    the returned image, or NoImage
\*   sw_obj, aw_obj  the caller's weight objects after the call
Outcome(err, log, ps, pa, tmpl, img, so, ao) ==
    [error |-> err, log |-> log, passedS |-> ps, passedA |-> pa,
     template |-> tmpl, image |-> img, sw_obj |-> so, aw_obj |-> ao]

NoTemplate == [level |-> 0, lms |-> [type |-> "None", owner |-> "None", level |-> 0]]

\* A full-length zero vector for an omitted weight vector.
DefaultWeightsFull(weights, pca) ==
    IF weights.kind = "None"
    THEN PyList([i \in 1..Len(pca.eigenvalues) |-> 0])
    ELSE weights

\* `if weights is None: weights = [0]`
DefaultWeights(weights, pca) ==
    IF weights.kind = "None" THEN PyList(<<0>>) ELSE weights

\* `weights *= pca.eigenvalues[:len(weights)] ** 0.5`
ScaleWeights(weights, pca) ==
    IMul(weights, PowHalf(SliceTo(pca.eigenvalues, Len(weights.vals))))

\* return self._instance(level, shape_instance, appearance_instance)
Dispatch(c, obj, level, shape_instance, appearance_instance, so, ao) ==
    IF DefinesInstance(c)
    THEN LET r == _instance(c, obj, level, shape_instance, appearance_instance)
         IN  Outcome("none", <<"sm.instance", "am.instance">> \o r.log,
                     shape_instance, appearance_instance, r.template, r.image, so, ao)
    ELSE Outcome("AttributeError", <<"sm.instance", "am.instance">>,
                 shape_instance, appearance_instance, NoTemplate, NoImage, so, ao)

\* AAM.instance(shape_weights, appearance_weights, level)
instance(c, obj, shape_weights, appearance_weights, level) ==
    LET smi == ListIndex(obj.shape_models, level)
        ami == ListIndex(obj.appearance_models, level)
    IN  IF ~smi.ok \/ ~ami.ok
        THEN Outcome("IndexError", <<>>, NotCalled, NotCalled, NoTemplate, NoImage,
                     shape_weights, appearance_weights)
        ELSE
        LET sm == obj.shape_models[smi.pos]
            am == obj.appearance_models[ami.pos]
            sw == DefaultWeights(shape_weights, sm)
            aw == DefaultWeights(appearance_weights, am)
            smul == ScaleWeights(sw, sm)
            so == IF shape_weights.kind = "None" THEN PyNone ELSE smul.obj
        IN  IF smul.error # "none"
            THEN Outcome(smul.error, <<>>, NotCalled, NotCalled, NoTemplate, NoImage,
                         so, appearance_weights)
            ELSE
            LET shape_instance == PCAInstance(sm, smul.value)
                amul == ScaleWeights(aw, am)
                ao == IF appearance_weights.kind = "None" THEN PyNone ELSE amul.obj
            IN  IF amul.error # "none"
                THEN Outcome(amul.error, <<"sm.instance">>, shape_instance, NotCalled,
                             NoTemplate, NoImage, so, ao)
                ELSE Dispatch(c, obj, level, shape_instance,
                              PCAInstance(am, amul.value), so, ao)

\* AAM.random_instance(level); zs and za are the vectors np.random.randn
\* returned for the shape and the appearance model.
random_instance(c, obj, zs, za, level) ==
    LET smi == ListIndex(obj.shape_models, level)
        ami == ListIndex(obj.appearance_models, level)
    IN  IF ~smi.ok \/ ~ami.ok
        THEN Outcome("IndexError", <<>>, NotCalled, NotCalled, NoTemplate, NoImage,
                     PyNone, PyNone)
        ELSE
        LET sm == obj.shape_models[smi.pos]
            am == obj.appearance_models[ami.pos]
            shape_weights ==
                NdArray(Multiply(zs, PowHalf(SliceTo(sm.eigenvalues, n_active_components(sm)))))
            appearance_weights ==
                NdArray(Multiply(za, PowHalf(SliceTo(am.eigenvalues, n_active_components(am)))))
        IN  Dispatch(c, obj, level, PCAInstance(sm, shape_weights),
                     PCAInstance(am, appearance_weights), PyNone, PyNone)

(***************************************************************************)
(* Serialization adapter.  Dictionaries are objects: `heap` holds the      *)
(* instance dictionary under "self" and the adapter's dictionary under     *)
(* "d"; a name is a reference into the heap.                               *)
(***************************************************************************)

DictPop(d, key) == [k \in (DOMAIN d) \ {key} |-> d[k]]

DictSet(d, key, v) == [k \in (DOMAIN d) \cup {key} |-> IF k = key THEN v ELSE d[k]]

\* d = self.__dict__ (no copy): d names the instance dictionary itself.
DictAlias(heap) == [heap |-> heap, ref |-> "self"]

\* d = self.__dict__.copy(): a new dictionary with the same items.
DictCopy(heap) == [heap |-> [heap EXCEPT !.d = heap.self], ref |-> "d"]

\* The features replacement, the same statements in both adapters.
WrapFeatures(heap, ref) ==
    LET features == heap[ref].features
        popped == [heap EXCEPT ![ref] = DictPop(@, "features")]
    IN  IF heap.self.scale_features
        THEN [error |-> "none",
              heap |-> [popped EXCEPT ![ref] =
                           DictSet(@, "features",
                                   SerializableCallable(features, <<"aam.feature">>))]]
        ELSE IF features.tag # "list"
        THEN [error |-> "TypeError", heap |-> popped]
        ELSE [error |-> "none",
              heap |-> [popped EXCEPT ![ref] =
                           DictSet(@, "features",
                                   CallableList([i \in 1..Len(features.items) |->
                                       SerializableCallable(features.items[i],
                                                            <<"aam.feature">>)]))]]

\* AAM.h5_dict_to_serializable_dict
AAM_h5_dict_to_serializable_dict(obj) ==
    LET c == DictCopy([self |-> obj, d |-> obj])
    IN  IF "transform" \notin DOMAIN c.heap[c.ref]
        THEN [error |-> "KeyError", self |-> c.heap.self, d |-> c.heap[c.ref]]
        ELSE
        LET transform == c.heap[c.ref].transform
            h1 == [c.heap EXCEPT ![c.ref] =
                      DictSet(DictPop(@, "transform"), "transform",
                              SerializableCallable(transform, <<"menpo.transform">>))]
            f == WrapFeatures(h1, c.ref)
        IN  [error |-> f.error, self |-> f.heap.self, d |-> f.heap[c.ref]]

\* PartsAAM.h5_dict_to_serializable_dict
PartsAAM_h5_dict_to_serializable_dict(obj) ==
    LET c == DictCopy([self |-> obj, d |-> obj])
        f == WrapFeatures(c.heap, c.ref)
    IN  [error |-> f.error, self |-> f.heap.self, d |-> f.heap[c.ref]]

\* Method resolution: PartsAAM overrides the adapter, the others inherit it.
h5_dict_to_serializable_dict(c, obj) ==
    IF c = "PartsAAM"
    THEN PartsAAM_h5_dict_to_serializable_dict(obj)
    ELSE AAM_h5_dict_to_serializable_dict(obj)

(***************************************************************************)
(* The state machine: one model object and the calls made on it.           *)
(*   cls   the object's class                                              *)
(*   self  the object's instance dictionary                                *)
(*   args  the arguments its constructor was given                         *)
(*   last  the last call made on it and what the call left behind          *)
(***************************************************************************)

ShapeKinds == {"PointCloud", "TriMesh"}

\* TexturedTriMesh is a subclass of TriMesh.
LmsTypes == {"PointCloud", "TriMesh", "TexturedTriMesh"}

IsMeshTyped(t) == t \in {"TriMesh", "TexturedTriMesh"}

\* One feature function for all levels, or one per level.
SingleFeature == Callable("features")

LevelFeatures(n) == CallableList([i \in 1..n |-> Callable(ToString(i))])

\* Constructor arguments: nS shape models, nA appearance models and nSc
\* scale factors; the shape models keep k components and the appearance
\* models MaxEig + 1 - k.
MkArgs(nS, nA, nSc, k, shapeKind, lmsType, features, scale_features) ==
    [shape_models |-> [i \in 1..nS |-> ShapeModel(i, k, shapeKind)],
     appearance_models |-> [i \in 1..nA |-> AppearanceModel(i, MaxEig + 1 - k, lmsType)],
     reference_shape |-> "reference_shape",
     transform |-> Callable("PiecewiseAffine"),
     patch_shape |-> "patch_shape",
     parts_shape |-> "parts_shape",
     features |-> features,
     sigma |-> "sigma",
     scales |-> [i \in 1..nSc |-> i],
     scale_shapes |-> TRUE,
     scale_features |-> scale_features,
     n_landmarks |-> "n_landmarks"]

NoCall == [op |-> "none"]

\* Objects as the builders make them: as many shape models and appearance
\* models as scales, and features of the form scale_features announces.
Init ==
    /\ cls \in Classes
    /\ \E n \in 1..MaxLevels, k \in 1..MaxEig, flag \in BOOLEAN,
          shapeKind \in ShapeKinds, lmsType \in LmsTypes :
          /\ cls # "GlobalAAM" => shapeKind = "PointCloud" /\ lmsType = "PointCloud"
          /\ args = MkArgs(n, n, n, k, shapeKind, lmsType,
                           IF flag THEN SingleFeature ELSE LevelFeatures(n), flag)
    /\ self = Construct(cls, args)
    /\ last = NoCall

\* Any object the constructors accept: they check nothing, so the three
\* sequences may differ in length and features need not be of the form
\* scale_features announces (here one callable where a list is announced).
InitAny ==
    /\ cls \in Classes
    /\ \E nS \in 1..MaxLevels, nA \in 1..MaxLevels, nSc \in 1..MaxLevels :
          args = MkArgs(nS, nA, nSc, MaxEig, "PointCloud", "PointCloud",
                        SingleFeature, FALSE)
    /\ self = Construct(cls, args)
    /\ last = NoCall

Ones(n) == [i \in 1..n |-> 1]

\* The weight vectors callers pass: as a list, the zero weight and unit
\* weights of every length up to MaxWeights (the empty list included); as an
\* ndarray, unit weights of every length from 1.
WeightObjects ==
    {PyList(<<0>>)} \cup {PyList(Ones(n)) : n \in 0..MaxWeights}
                   \cup {NdArray(Ones(n)) : n \in 1..MaxWeights}

WeightArgs == {PyNone} \cup WeightObjects

\* The level arguments tried on an object: every index valid for one of
\* its sequences, and one beyond each end.
LevelArgs(obj) ==
    LET n == IF Len(obj.shape_models) > Len(obj.scales)
             THEN Len(obj.shape_models) ELSE Len(obj.scales)
        m == IF Len(obj.appearance_models) > n THEN Len(obj.appearance_models) ELSE n
    IN  (-(m + 1))..m

\* What np.random.randn(n) may return.
RandVectors(n) == [1..n -> {-1, 1}]

\* instance(shape_weights, appearance_weights, level) with weight objects
\* the caller has just made.
CallInstance ==
    \E level \in LevelArgs(self), sw \in WeightArgs, aw \in WeightArgs :
        /\ last.op = "none"
        /\ LET r == instance(cls, self, sw, aw, level)
           IN  last' = [op |-> "instance", level |-> level, sw |-> sw, aw |-> aw,
                        again |-> FALSE, first |-> r, out |-> r]
        /\ UNCHANGED <<cls, self, args>>

\* The same call once more, with the same weight objects as they now are.
CallInstanceAgain ==
    /\ last.op = "instance"
    /\ ~last.again
    /\ last' = [last EXCEPT !.again = TRUE,
                            !.out = instance(cls, self, last.out.sw_obj,
                                             last.out.aw_obj, last.level)]
    /\ UNCHANGED <<cls, self, args>>

\* random_instance(level)
CallRandomInstance ==
    \E level \in LevelArgs(self) :
        /\ last.op = "none"
        /\ LET smi == ListIndex(self.shape_models, level)
            ami == ListIndex(self.appearance_models, level)
            nS == IF smi.ok /\ ami.ok
                  THEN n_active_components(self.shape_models[smi.pos]) ELSE 0
            nA == IF smi.ok /\ ami.ok
                  THEN n_active_components(self.appearance_models[ami.pos]) ELSE 0
           IN  \E zs \in RandVectors(nS), za \in RandVectors(nA) :
                   /\ last' = [op |-> "random_instance", level |-> level,
                               zs |-> zs, za |-> za,
                               out |-> random_instance(cls, self, zs, za, level)]
                   /\ UNCHANGED <<cls, self, args>>

\* h5_dict_to_serializable_dict()
CallH5Dict ==
    LET r == h5_dict_to_serializable_dict(cls, self)
    IN  /\ last.op = "none"
        /\ last' = [op |-> "h5_dict_to_serializable_dict", before |-> self,
                    error |-> r.error, d |-> r.d]
        /\ self' = r.self
        /\ UNCHANGED <<cls, args>>

\* The caller is done with the result of its last call.
Return ==
    /\ last.op # "none"
    /\ last' = NoCall
    /\ UNCHANGED <<cls, self, args>>

Next == CallInstance \/ CallInstanceAgain \/ CallRandomInstance \/ CallH5Dict \/ Return

Spec == Init /\ [][Next]_vars

SpecAny == InitAny /\ [][Next]_vars

(***************************************************************************)
(* Properties.                                                             *)
(***************************************************************************)

Sampling == last.op \in {"instance", "random_instance"}

\* A level index valid for n levels, and the 1-based position it denotes.
ValidLevel(n, L) == -n <= L /\ L < n

LevelPos(n, L) == IF L >= 0 THEN L + 1 ELSE n + L + 1

\* The weights w scaled entry by entry by the square roots of eig.
ScaledBy(passed, w, eig) ==
    /\ Len(passed) = Len(w)
    /\ \A i \in 1..Len(w) : passed[i] = w[i] * Sqrt(eig[i])

\* C1: weights no longer than the level's eigenvalues reach the level's
\* shape model (and appearance model) with entry i multiplied by the square
\* root of eigenvalue i of that level's own model.
C1_ScaledByOwnLevel ==
    (last.op = "instance" /\ ValidLevel(n_levels(self), last.level)) =>
        LET pos == LevelPos(n_levels(self), last.level)
            sm == self.shape_models[pos]
            am == self.appearance_models[pos]
            sOK == last.sw.kind = "None" \/ Len(last.sw.vals) <= Len(sm.eigenvalues)
            r == last.first
        IN  /\ (last.sw.kind # "None" /\ sOK) =>
                   /\ r.passedS.called
                   /\ r.passedS.level = sm.level
                   /\ ScaledBy(r.passedS.w, last.sw.vals, sm.eigenvalues)
            /\ (sOK /\ last.aw.kind # "None" /\ Len(last.aw.vals) <= Len(am.eigenvalues)) =>
                   /\ r.passedA.called
                   /\ r.passedA.level = am.level
                   /\ ScaledBy(r.passedA.w, last.aw.vals, am.eigenvalues)

C1_Witness ==
    /\ last.op = "instance"
    /\ n_levels(self) = MaxLevels
    /\ last.level = -1
    /\ last.sw = NdArray(<<1, 1>>)
    /\ last.aw = PyList(<<1>>)
    /\ last.first.passedS.called
    /\ last.first.passedS.level = MaxLevels
    /\ last.first.passedS.w # <<1, 1>>
    /\ last.first.passedA.called
    /\ last.first.passedA.w # <<1>>

\* C2: an omitted weight vector is the list [0]: the call does what the call
\* with [0] in its place does, for one omitted vector or both.
ExplicitZero(w) == IF w.kind = "None" THEN PyList(<<0>>) ELSE w

C3_FailFast ==
    (last.op = "instance" /\ ValidLevel(n_levels(self), last.level)) =>
        LET pos == LevelPos(n_levels(self), last.level)
            sm == self.shape_models[pos]
            am == self.appearance_models[pos]
            r == last.first
        IN  /\ (last.sw.kind # "None" /\ Len(last.sw.vals) > Len(sm.eigenvalues)) =>
                   /\ r.error # "none"
                   /\ r.image = NoImage
                   /\ ~r.passedS.called
            /\ (last.aw.kind # "None" /\ Len(last.aw.vals) > Len(am.eigenvalues)) =>
                   /\ r.error # "none"
                   /\ r.image = NoImage
                   /\ ~r.passedA.called

\* C4: a level index in [-n, n-1] selects pair L (or n+L when negative) for
\* the shape model, the appearance model and the template alike; any other
\* index ends the call with an error before anything is sampled.
C4_LevelResolution ==
    Sampling =>
        LET n == n_levels(self)
            r == last.out
        IN  IF ValidLevel(n, last.level)
            THEN LET pos == LevelPos(n, last.level)
                 IN  /\ r.error # "IndexError"
                     /\ r.error # "ValueError" => r.passedS.called /\ r.passedA.called
                     /\ r.passedS.called => r.passedS.level = self.shape_models[pos].level
                     /\ r.passedA.called =>
                            r.passedA.level = self.appearance_models[pos].level
                     /\ r.image # NoImage =>
                            /\ r.template = self.appearance_models[pos].mean
                            /\ r.image.transform.target = self.appearance_models[pos].mean.lms
            ELSE /\ r.error = "IndexError"
                 /\ r.log = <<>>
                 /\ ~r.passedS.called
                 /\ ~r.passedA.called
                 /\ r.image = NoImage

C4_Witness ==
    /\ Sampling
    /\ n_levels(self) = MaxLevels
    /\ last.level = -MaxLevels
    /\ last.out.image # NoImage
    /\ last.out.passedS.level = 1
    /\ last.out.template.level = 1

LengthsAgree(obj) ==
    /\ n_levels(obj) = Len(obj.scales)
    /\ n_levels(obj) = Len(obj.shape_models)
    /\ n_levels(obj) = Len(obj.appearance_models)

\* C5 as claimed: n_levels is the length of scales, of shape_models and of
\* appearance_models in every object that can be constructed, so a level
\* index valid for n_levels never fails to select a pair.
C5_AllLengthsAgree ==
    Sampling =>
        /\ LengthsAgree(self)
        /\ ValidLevel(n_levels(self), last.level) => last.out.error # "IndexError"

\* C5, amended: n_levels is the length of the scales the constructor was
\* given; the three sequences are the ones it was given, whatever their
\* lengths, so the lengths agree exactly when the arguments' lengths did.
C5_LengthsAsConstructed ==
    /\ n_levels(self) = Len(args.scales)
    /\ self.scales = args.scales
    /\ self.shape_models = args.shape_models
    /\ self.appearance_models = args.appearance_models
    /\ LengthsAgree(self) <=>
           /\ Len(args.scales) = Len(args.shape_models)
           /\ Len(args.scales) = Len(args.appearance_models)

C5_Witness ==
    /\ last.op = "instance"
    /\ n_levels(self) = 1
    /\ Len(self.shape_models) = MaxLevels
    /\ Len(self.appearance_models) = MaxLevels
    /\ last.level = 1
    /\ last.out.passedS.called

\* The reference frame an image was composed in.
FrameOf(image) == image.mask.mask_of

LogPos(log, name) ==
    IF \E i \in 1..Len(log) : log[i] = name
    THEN CHOOSE i \in 1..Len(log) : log[i] = name /\ \A j \in 1..(i - 1) : log[j] # name
    ELSE 0

\* C7: in the global and patch variants, for every valid level, the frame
\* is built from the shape instance, the transform takes the frame's own
\* landmarks first and the level's template landmarks second, the
\* appearance instance is warped into the frame's mask, and the returned
\* image carries the frame's landmarks in place of the warped image's.
C7_Composition ==
    (cls \in {"GlobalAAM", "PatchAAM"} /\ Sampling
        /\ ValidLevel(n_levels(self), last.level) /\ last.out.error # "ValueError") =>
        LET r == last.out
            am == self.appearance_models[LevelPos(n_levels(self), last.level)]
            frame == FrameOf(r.image)
        IN  /\ r.error = "none"
            /\ r.image # NoImage
            /\ frame.shape = r.passedS
            /\ frame.builder = IF cls = "GlobalAAM" THEN "build_reference_frame"
                               ELSE "build_patch_reference_frame"
            /\ r.image.transform.ctor = self.transform
            /\ r.image.transform.source = FrameSourceLms(frame)
            /\ r.image.transform.target = am.mean.lms
            /\ r.image.pixels = r.passedA
            /\ r.image.mask = FrameMask(frame)
            /\ r.image.landmarks = FrameLandmarks(frame)
            /\ r.image.landmarks.owner # "warped_image"
            /\ 0 < LogPos(r.log, "_build_reference_frame")
            /\ LogPos(r.log, "_build_reference_frame") < LogPos(r.log, "transform")
            /\ LogPos(r.log, "transform") < LogPos(r.log, "warp_to_mask")
            /\ LogPos(r.log, "warp_to_mask") < LogPos(r.log, "set_landmarks")

C7_Witness ==
    /\ cls = "PatchAAM"
    /\ last.op = "random_instance"
    /\ last.level = MaxLevels - 1
    /\ n_levels(self) = MaxLevels
    /\ last.out.image # NoImage
    /\ last.out.image.landmarks.owner = "reference_frame"
    /\ FrameOf(last.out.image).patch_shape = self.patch_shape

\* C8: on the classes that define no _instance (the two linear ones and
\* the parts one) every instance() and random_instance() call ends with an
\* error and no image, the missing-method error when nothing else went
\* wrong first, and the object is as it was constructed.
C8_NoSynthesis ==
    (cls \in {"LinearGlobalAAM", "LinearPatchAAM", "PartsAAM"} /\ Sampling) =>
        LET r == last.out
        IN  /\ r.error # "none"
            /\ r.image = NoImage
            /\ (ValidLevel(n_levels(self), last.level) /\ r.error # "ValueError") =>
                   r.error = "AttributeError"
            /\ self = Construct(cls, args)

C8_Witness ==
    /\ cls = "LinearPatchAAM"
    /\ last.op = "instance"
    /\ last.level = -1
    /\ last.out.error = "AttributeError"
    /\ last.out.passedS.called
    /\ last.out.passedA.called
    /\ last.out.image = NoImage

\* C9: the adapter's mapping has the object's keys; every value but
\* 'transform' and 'features' is the object's own; 'features' is one
\* wrapped callable under scale_features and else the per-level features
\* wrapped one by one in order; 'transform' is wrapped, except that the
\* parts class has no such key and does not fail; the object is unchanged.
Wrapped(v, f) == v.tag = "SerializableCallable" /\ v.callable = f

C9_SerializableDict ==
    last.op = "h5_dict_to_serializable_dict" =>
        LET d == last.d
            before == last.before
        IN  /\ last.error = "none"
            /\ DOMAIN d = DOMAIN before
            /\ \A k \in (DOMAIN d) \ {"transform", "features"} : d[k] = before[k]
            /\ IF before.scale_features
               THEN Wrapped(d.features, before.features)
               ELSE /\ d.features.tag = "list"
                    /\ Len(d.features.items) = Len(before.features.items)
                    /\ Len(d.features.items) = n_levels(before)
                    /\ \A i \in 1..Len(d.features.items) :
                           Wrapped(d.features.items[i], before.features.items[i])
            /\ IF cls = "PartsAAM"
               THEN "transform" \notin DOMAIN d
               ELSE Wrapped(d.transform, before.transform)
            /\ self = before
            /\ self = Construct(cls, args)

C9_Witness ==
    /\ cls = "PartsAAM"
    /\ last.op = "h5_dict_to_serializable_dict"
    /\ ~self.scale_features
    /\ last.error = "none"
    /\ Len(last.d.features.items) = MaxLevels
    /\ "transform" \notin DOMAIN last.d

\* C10: a call leaves the object and the caller's weight vectors as they
\* were, so the same call made again with the same weight objects hands the
\* models the same weights and ends the same way.
C10_NoSideEffect ==
    last.op = "instance" =>
        /\ self = Construct(cls, args)
        /\ last.sw.kind # "None" => last.out.sw_obj = last.sw
        /\ last.aw.kind # "None" => last.out.aw_obj = last.aw
        /\ last.again =>
               /\ last.out.error = last.first.error
               /\ last.out.passedS = last.first.passedS
               /\ last.out.passedA = last.first.passedA
               /\ last.out.image = last.first.image
====
